---- MODULE Spec2Model ----
(***************************************************************************)
(* Stopwatch<Duration, Clock> of stopwatch.h: a vector of time points, a   *)
(* mode flag, and a random access iterator over the durations between the  *)
(* time points.                                                            *)
(*                                                                         *)
(* Time points are integers (clock ticks).  A pointer into a vector's      *)
(* storage is a pair [blk, off]: the block the vector allocated and the    *)
(* element offset in it.  Live blocks of different vectors are different   *)
(* blocks, so a block is named after the object that owns it; "null" is    *)
(* the null pointer a vector without storage returns from data().          *)
(* Const member functions are operators.  One whose body can run into      *)
(* undefined behaviour yields the SET of its possible outcomes.            *)
(***************************************************************************)
EXTENDS Integers, Sequences, FiniteSets

VARIABLES now, sw, ret, it

vars == <<now, sw, ret, it>>

(* ------------------------------ bounds -------------------------------- *)

\* The clock runs from 0 to MaxTime ticks.
MaxTime == 2

\* No stopwatch grows beyond MaxLen time points.
MaxLen == 3

\* Clock ticks per unit of Duration (10^6 for the default milliseconds over
\* a nanosecond steady_clock).
TicksPerUnit == 2

\* Width in bits of size_t and of the signed index type.
IndexBits == 3

\* Length of the stopwatches the iterator specification starts from.
IterLen == 2

(* ------------------------------ values -------------------------------- *)

\* stopwatch.h:35
SPLIT_MODE == TRUE

\* stopwatch.h:38
ELAPSE_MODE == FALSE

\* The Stopwatch objects of the program.
SW == {"A", "B"}

\* The iterator objects the iterator specification keeps.
IT == {"i", "j"}

RECURSIVE Pow2(_)
Pow2(n) == IF n = 0 THEN 1 ELSE 2 * Pow2(n - 1)

\* size_t is 0 .. SIZE_MAX.
SizeMod == Pow2(IndexBits)

SIZE_MAX == SizeMod - 1

\* The index types operator[] and data(Integer) are instantiated with.
IntegerKinds == {"signed", "size_t"}

IntegerValues(kind) ==
  IF kind = "signed" THEN (0 - SizeMod \div 2) .. (SizeMod \div 2 - 1)
  ELSE 0 .. SIZE_MAX

\* Conversion of a value of an integer type to size_t.
ToSizeT(v) == v % SizeMod

\* What a read outside a vector's elements can produce.
Garbage == 0 .. MaxTime

Ok(v) == [err |-> "none", val |-> v, oob |-> FALSE]

Throw(e) == [err |-> e, val |-> 0, oob |-> FALSE]

NullPtr == [blk |-> "null", off |-> 0]

\* The return value of a function returning void.
Void == [op |-> "void"]

\* The value of a function that returns bool and is noexcept.
OkB(b) == [err |-> "none", val |-> b]

\* duration_cast<Duration> of a difference of time points: the whole units,
\* truncated toward zero.
DurationCast(d) ==
  IF d >= 0 THEN d \div TicksPerUnit ELSE 0 - ((0 - d) \div TicksPerUnit)

(* ----------------------------- Stopwatch ------------------------------ *)

\* A Stopwatch object: its members, and the block of measurements' storage.
Stopwatch(m, mode_in, blk) == [measurements |-> m, sw_mode |-> mode_in, buf |-> blk]

\* Both constructors reserve storage: 2, or res + 1, time points.
Construct(s, mode_in) == Stopwatch(<<>>, mode_in, s)

empty(w) == Len(w.measurements) < 2

\* size() without the sz > 1 test: 0 - 1 wraps in size_t.
size_unguarded(w) == (Len(w.measurements) - 1) % SizeMod

size(w) ==
  LET sz == Len(w.measurements)
  IN  IF sz > 1 THEN sz - 1 ELSE 0

mode(w) == w.sw_mode

data(w) == w.measurements

\* data_size() that returns the number of durations, not of time points.
data_size_of_durations(w) == size(w)

data_size(w) == Len(w.measurements)

\* What reading element n (a size_t) of the vector m yields: the element,
\* or, outside the elements, whatever the memory there holds.
Element(m, n) ==
  IF n < Len(m) THEN {[v |-> m[n + 1], oob |-> FALSE]}
  ELSE {[v |-> g, oob |-> TRUE] : g \in Garbage}

\* The values index + 1 can have as the size_t argument of at(): computed in
\* the index type, where the largest signed value overflows (undefined).
IndexPlusOne(kind, index) ==
  IF kind = "size_t" THEN {(index + 1) % SizeMod}
  ELSE IF index = SizeMod \div 2 - 1 THEN 0 .. SIZE_MAX
  ELSE {ToSizeT(index + 1)}

\* The duration count of end - begin for every pair of values read, and a
\* crash as a further outcome when a read went outside the elements.
Durations(E, B) ==
  {[err |-> "none", val |-> DurationCast(e.v - b.v), oob |-> e.oob \/ b.oob] :
     e \in E, b \in B}
    \cup (IF \E x \in E \cup B : x.oob
          THEN {[err |-> "crash", val |-> 0, oob |-> TRUE]} ELSE {})

\* operator[] that ignores sw_mode and always takes the split.
operator_index_split_only(w, kind, index) ==
  UNION {
    IF n >= Len(w.measurements) THEN {Throw("out_of_range")}
    ELSE Durations(Element(w.measurements, n),
                   Element(w.measurements, ToSizeT(index)))
    : n \in IndexPlusOne(kind, index)}

\* typename Duration::rep operator[](Integer index) const: the outcomes.
\* measurements.at(index + 1) throws before anything else is read.
operator_index(w, kind, index) ==
  UNION {
    IF n >= Len(w.measurements) THEN {Throw("out_of_range")}
    ELSE Durations(Element(w.measurements, n),
                   IF w.sw_mode = SPLIT_MODE
                   THEN Element(w.measurements, ToSizeT(index))
                   ELSE Element(w.measurements, 0))
    : n \in IndexPlusOne(kind, index)}

\* typename Clock::time_point data(Integer index) const
data_at(w, kind, index) ==
  IF ToSizeT(index) >= Len(w.measurements) THEN {Throw("out_of_range")}
  ELSE {Ok(w.measurements[ToSizeT(index) + 1])}

(* ------------------------- Stopwatch::iterator ------------------------ *)

Pointer(b, o) == [blk |-> b, off |-> o]

\* An iterator object: its three members.
Iterator(base_in, ptr_in, mode_in) ==
  [live |-> TRUE, base |-> base_in, ptr |-> ptr_in, iter_mode |-> mode_in]

\* An iterator variable that holds no iterator yet.
NoIter == [live |-> FALSE, base |-> NullPtr, ptr |-> NullPtr, iter_mode |-> TRUE]

\* measurements.data()
Data(w) == Pointer(w.buf, 0)

\* iterator begin() const
begin(w) == Iterator(Data(w), Data(w), w.sw_mode)

\* end() as the iterator past the last time point, not the last duration.
end_past_last(w) ==
  Iterator(Data(w), Pointer(w.buf, Len(w.measurements)), w.sw_mode)

\* iterator end() const: fin is begin() of an empty vector, else the last
\* element; &(*fin) takes the address and reads nothing.
end(w) ==
  LET fin == IF Len(w.measurements) = 0 THEN 0 ELSE Len(w.measurements) - 1
  IN  Iterator(Data(w), Pointer(w.buf, fin), w.sw_mode)

iter_mode_get(i) == i.iter_mode

\* void iterator::mode(bool)
iter_mode_set(i, m) == [i EXCEPT !.iter_mode = m]

\* operator++, operator--: the iterator after the step.
iter_inc(i) == [i EXCEPT !.ptr.off = @ + 1]

iter_dec(i) == [i EXCEPT !.ptr.off = @ - 1]

\* operator+=(ptrdiff_t), operator+(ptrdiff_t)
iter_add(i, dist) == [i EXCEPT !.ptr.off = @ + dist]

\* operator-=(ptrdiff_t), operator-(ptrdiff_t)
iter_sub(i, dist) == [i EXCEPT !.ptr.off = @ - dist]

\* The time points stored in a block: those of the vector that owns it.
Contents(blk) ==
  IF blk \in SW /\ sw[blk].buf = blk THEN sw[blk].measurements
  ELSE IF blk = "ret" /\ ret.op = "operator+" /\ ret.val.buf = "ret"
       THEN ret.val.measurements
  ELSE <<>>

\* What *p reads: an element, or outside the elements whatever is there.
Load(p) ==
  IF p.off >= 0 /\ p.off < Len(Contents(p.blk))
  THEN {[v |-> Contents(p.blk)[p.off + 1], oob |-> FALSE]}
  ELSE {[v |-> g, oob |-> TRUE] : g \in Garbage}

\* operator* that takes the split whatever iter_mode is.
iter_deref_split_only(i) ==
  Durations(Load(Pointer(i.ptr.blk, i.ptr.off + 1)), Load(i.ptr))

\* typename Duration::rep operator*() const: the outcomes.
iter_deref(i) ==
  Durations(Load(Pointer(i.ptr.blk, i.ptr.off + 1)),
            IF i.iter_mode = SPLIT_MODE THEN Load(i.ptr) ELSE Load(i.base))

\* typename Duration::rep operator[](ptrdiff_t dist) const
iter_index(i, dist) == iter_deref(iter_add(i, dist))

\* p - q of two pointers: the offset difference inside one block (or of
\* two null pointers); across blocks undefined, and so an integer of any
\* sign.
PtrDiff(p, q) ==
  IF p.blk = q.blk THEN {p.off - q.off} ELSE {0 - 1, 0, 1}

iter_eq(a, b) == a.ptr = b.ptr /\ a.base = b.base

iter_ne(a, b) == a.ptr # b.ptr \/ a.base # b.base

\* operator< without the test of the bases.
iter_lt_positions_only(a, b) == {OkB(d > 0) : d \in PtrDiff(b.ptr, a.ptr)}

\* The relational operators are noexcept; each yields the booleans it can
\* return.
iter_lt(a, b) == {OkB(d > 0 /\ a.base = b.base) : d \in PtrDiff(b.ptr, a.ptr)}

iter_le(a, b) == {OkB(d >= 0 /\ a.base = b.base) : d \in PtrDiff(b.ptr, a.ptr)}

iter_gt(a, b) == {OkB(d > 0 /\ a.base = b.base) : d \in PtrDiff(a.ptr, b.ptr)}

\* operator>= subtracts other.base, not other.ptr.
iter_ge(a, b) == {OkB(d >= 0 /\ a.base = b.base) : d \in PtrDiff(a.ptr, b.base)}

\* ptrdiff_t operator-(const iterator&) const
iter_minus(a, b) ==
  IF a.base # b.base THEN {Throw("runtime_error")}
  ELSE {Ok(d) : d \in PtrDiff(a.ptr, b.ptr)}

(* -------------------------- the state machine ------------------------- *)

Init ==
  /\ now = 0
  /\ sw \in [SW -> {Construct(s, m) : s \in SW, m \in BOOLEAN}]
  /\ \A s \in SW : sw[s].buf = s
  /\ ret = Void
  /\ it = [k \in IT |-> NoIter]

\* A clock that is not monotonic: after MaxTime it starts again at 0.
Tick_wrapping ==
  /\ now' = (now + 1) % (MaxTime + 1)
  /\ UNCHANGED <<sw, ret, it>>

\* Time passes: Clock::now() of a steady clock never goes back.
Tick ==
  /\ now < MaxTime
  /\ now' = now + 1
  /\ UNCHANGED <<sw, ret, it>>

\* mode(bool) that also sets the mode of the iterators into the stopwatch.
set_mode_of_iterators_too(s, m) ==
  /\ sw' = [sw EXCEPT ![s].sw_mode = m]
  /\ it' = [k \in IT |-> IF it[k].live /\ it[k].base.blk = s
                          THEN iter_mode_set(it[k], m) ELSE it[k]]
  /\ ret' = Void
  /\ UNCHANGED now

\* void mode(bool)
set_mode(s, m) ==
  /\ sw' = [sw EXCEPT ![s].sw_mode = m]
  /\ ret' = Void
  /\ UNCHANGED <<now, it>>

\* record() that puts the time point in front of the others.
record_at_front(s) ==
  /\ Len(sw[s].measurements) < MaxLen
  /\ sw' = [sw EXCEPT ![s].measurements = <<now>> \o @, ![s].buf = s]
  /\ ret' = Void
  /\ UNCHANGED <<now, it>>

\* emplace_back allocates when the vector has no storage.
record(s) ==
  /\ Len(sw[s].measurements) < MaxLen
  /\ sw' = [sw EXCEPT ![s].measurements = Append(@, now), ![s].buf = s]
  /\ ret' = Void
  /\ UNCHANGED <<now, it>>

\* clear() that puts the stopwatch back into the constructor's default mode.
clear_to_default(s) ==
  /\ sw' = [sw EXCEPT ![s].measurements = <<>>, ![s].sw_mode = SPLIT_MODE]
  /\ ret' = Void
  /\ UNCHANGED <<now, it>>

\* vector::clear keeps the storage.
clear(s) ==
  /\ sw' = [sw EXCEPT ![s].measurements = <<>>]
  /\ ret' = Void
  /\ UNCHANGED <<now, it>>

\* A merge that copies an element the two ranges share from both.
RECURSIVE set_union_keep_both(_, _)
set_union_keep_both(a, b) ==
  IF a = <<>> THEN b
  ELSE IF b = <<>> THEN a
  ELSE IF Head(b) < Head(a) THEN <<Head(b)>> \o set_union_keep_both(a, Tail(b))
  ELSE <<Head(a)>> \o set_union_keep_both(Tail(a), b)

\* A merge that stops where the first range ends and leaves out what is left
\* of the second.
RECURSIVE set_union_until_first_ends(_, _)
set_union_until_first_ends(a, b) ==
  IF a = <<>> THEN <<>>
  ELSE IF b = <<>> THEN a
  ELSE IF Head(a) < Head(b)
       THEN <<Head(a)>> \o set_union_until_first_ends(Tail(a), b)
  ELSE IF Head(b) < Head(a)
       THEN <<Head(b)>> \o set_union_until_first_ends(a, Tail(b))
  ELSE <<Head(a)>> \o set_union_until_first_ends(Tail(a), Tail(b))

\* std::set_union(first1, last1, first2, last2, back_inserter): the merge
\* loop of two ranges, an element the ranges share being copied once.
RECURSIVE set_union(_, _)
set_union(a, b) ==
  IF a = <<>> THEN b
  ELSE IF b = <<>> THEN a
  ELSE IF Head(a) < Head(b) THEN <<Head(a)>> \o set_union(Tail(a), b)
  ELSE IF Head(b) < Head(a) THEN <<Head(b)>> \o set_union(a, Tail(b))
  ELSE <<Head(a)>> \o set_union(Tail(a), Tail(b))

\* reserve(n) of a vector without storage allocates only when n > 0.
Reserved(n, blk) == IF n > 0 THEN blk ELSE "null"

\* The implicit copy constructor: the mode, and a vector copy, which
\* allocates only for a non-empty source.
Copy(w, blk) ==
  Stopwatch(w.measurements, w.sw_mode, Reserved(Len(w.measurements), blk))

\* operator+= that also takes over the mode of the other stopwatch.
plus_assign_mode_of_other(w, other, blk) ==
  LET n == Len(w.measurements) + Len(other.measurements)
      new_measures == set_union(w.measurements, other.measurements)
  IN  [w EXCEPT !.measurements = new_measures, !.sw_mode = other.sw_mode,
                !.buf = Reserved(n, blk)]

\* operator+= that appends the other stopwatch's time points to its own.
plus_assign_append(w, other, blk) ==
  LET n == Len(w.measurements) + Len(other.measurements)
  IN  [w EXCEPT !.measurements = @ \o other.measurements,
                !.buf = Reserved(n, blk)]

\* The body of operator+= on the object w: new_measures is reserved, filled
\* by set_union and swapped into measurements; sw_mode is not assigned.
plus_assign(w, other, blk) ==
  LET n == Len(w.measurements) + Len(other.measurements)
      new_measures == set_union(w.measurements, other.measurements)
  IN  [w EXCEPT !.measurements = new_measures, !.buf = Reserved(n, blk)]

\* Stopwatch& operator+=(const Stopwatch&): returns *this, no new object.
operator_plus_assign(s, t) ==
  /\ Len(set_union(sw[s].measurements, sw[t].measurements)) <= MaxLen
  /\ sw' = [sw EXCEPT ![s] = plus_assign(sw[s], sw[t], s)]
  /\ ret' = Void
  /\ UNCHANGED <<now, it>>

\* The value of operator+: temp is a copy of *this, temp += other, and the
\* returned object is a copy of temp.
plus(w, other) == Copy(plus_assign(Copy(w, "temp"), other, "temp"), "ret")

\* Stopwatch operator+(const Stopwatch&)
operator_plus(s, t) ==
  /\ ret' = [op |-> "operator+", lhs |-> s, rhs |-> t, val |-> plus(sw[s], sw[t])]
  /\ UNCHANGED <<now, sw, it>>

(* ---- iterator objects: what a caller does with the iterators it holds ---- *)

\* it[k] = sw[s].begin()
it_begin(k, s) ==
  /\ it' = [it EXCEPT ![k] = begin(sw[s])]
  /\ UNCHANGED <<now, sw, ret>>

\* it[k] = sw[s].end()
it_end(k, s) ==
  /\ it' = [it EXCEPT ![k] = end(sw[s])]
  /\ UNCHANGED <<now, sw, ret>>

\* it[k].mode(m)
it_mode(k, m) ==
  /\ it[k].live
  /\ it' = [it EXCEPT ![k] = iter_mode_set(@, m)]
  /\ UNCHANGED <<now, sw, ret>>

\* ++it[k]; nothing in the code bounds the position, the guard keeps it in
\* the range of the stopwatches the specification starts from.
it_inc(k) ==
  /\ it[k].live /\ it[k].ptr.off < IterLen
  /\ it' = [it EXCEPT ![k] = iter_inc(@)]
  /\ UNCHANGED <<now, sw, ret>>

\* --it[k]
it_dec(k) ==
  /\ it[k].live /\ it[k].ptr.off > 0
  /\ it' = [it EXCEPT ![k] = iter_dec(@)]
  /\ UNCHANGED <<now, sw, ret>>

\* it[j] = it[k]++: the copy made before the step is returned.
it_post_inc(j, k) ==
  /\ j # k /\ it[k].live /\ it[k].ptr.off < IterLen
  /\ it' = [it EXCEPT ![j] = it[k], ![k] = iter_inc(it[k])]
  /\ UNCHANGED <<now, sw, ret>>

\* it[j] = it[k]--
it_post_dec(j, k) ==
  /\ j # k /\ it[k].live /\ it[k].ptr.off > 0
  /\ it' = [it EXCEPT ![j] = it[k], ![k] = iter_dec(it[k])]
  /\ UNCHANGED <<now, sw, ret>>

\* it[j] = it[k] + dist (j = k: it[k] += dist)
it_plus(j, k, dist) ==
  /\ it[k].live /\ it[k].ptr.off + dist \in 0 .. IterLen
  /\ it' = [it EXCEPT ![j] = iter_add(it[k], dist)]
  /\ UNCHANGED <<now, sw, ret>>

\* it[j] = it[k] - dist (j = k: it[k] -= dist)
it_minus(j, k, dist) ==
  /\ it[k].live /\ it[k].ptr.off - dist \in 0 .. IterLen
  /\ it' = [it EXCEPT ![j] = iter_sub(it[k], dist)]
  /\ UNCHANGED <<now, sw, ret>>

\* The time points of a stopwatch recorded n times, a tick apart.
Recorded(n) == [k \in 1 .. n |-> k - 1]

\* Two constructed stopwatches, each recorded up to IterLen times, and two
\* iterator variables that hold nothing yet.
InitIter ==
  /\ now = IterLen
  /\ sw \in [SW -> {Stopwatch(Recorded(n), m, s) :
                      n \in 0 .. IterLen, m \in BOOLEAN, s \in SW}]
  /\ \A s \in SW : sw[s].buf = s
  /\ ret = Void
  /\ it = [k \in IT |-> NoIter]

NextIter ==
  \/ \E s \in SW, m \in BOOLEAN : set_mode(s, m)
  \/ \E k \in IT, s \in SW : it_begin(k, s)
  \/ \E k \in IT, s \in SW : it_end(k, s)
  \/ \E k \in IT, m \in BOOLEAN : it_mode(k, m)
  \/ \E k \in IT : it_inc(k)
  \/ \E k \in IT : it_dec(k)
  \/ \E j \in IT, k \in IT : it_post_inc(j, k)
  \/ \E j \in IT, k \in IT : it_post_dec(j, k)
  \/ \E j \in IT, k \in IT, dist \in (0 - IterLen) .. IterLen : it_plus(j, k, dist)
  \/ \E j \in IT, k \in IT, dist \in (0 - IterLen) .. IterLen : it_minus(j, k, dist)

\* The iterators a caller holds while the stopwatches are not recorded to,
\* cleared or merged.
SpecIter == InitIter /\ [][NextIter]_vars

\* The time points of the stopwatches of test_interleave, which the helper
\* recorded() has recorded at least once, in the order of the clock, before
\* the clock reached MaxTime.
RecordedTimes ==
  {q \in UNION {[1 .. n -> 0 .. (MaxTime - 1)] : n \in 1 .. MaxLen} :
     \A k \in 1 .. (Len(q) - 1) : q[k] <= q[k + 1]}

\* sw_a and sw_b of test_interleave.
InitInterleave ==
  /\ now = MaxTime
  /\ sw \in [SW -> {Stopwatch(q, m, s) :
                      q \in RecordedTimes, m \in BOOLEAN, s \in SW}]
  /\ \A s \in SW : sw[s].buf = s
  /\ ret = Void
  /\ it = [k \in IT |-> NoIter]

\* sw_a += sw_b while sw_union, the value of sw_a + sw_b, is kept.
mutual_first(s, t) ==
  /\ ret.op = "operator+" /\ ret.lhs = s /\ ret.rhs = t
  /\ Len(set_union(sw[s].measurements, sw[t].measurements)) <= MaxLen
  /\ sw' = [sw EXCEPT ![s] = plus_assign(sw[s], sw[t], s)]
  /\ ret' = [ret EXCEPT !.op = "sw_a += sw_b"]
  /\ UNCHANGED <<now, it>>

\* sw_b += sw_a, right after sw_a += sw_b.
mutual_second(s, t) ==
  /\ ret.op = "sw_a += sw_b" /\ ret.lhs = t /\ ret.rhs = s
  /\ sw' = [sw EXCEPT ![s] = plus_assign(sw[s], sw[t], s)]
  /\ ret' = [ret EXCEPT !.op = "sw_b += sw_a"]
  /\ UNCHANGED <<now, it>>

NextInterleave ==
  \/ \E s \in SW, t \in SW : operator_plus(s, t)
  \/ \E s \in SW, t \in SW : mutual_first(s, t)
  \/ \E s \in SW, t \in SW : mutual_second(s, t)
  \/ \E s \in SW : record(s)
  \/ \E s \in SW : clear(s)

\* The steps of test_interleave on two recorded stopwatches, which are also
\* recorded to and cleared.
SpecInterleave == InitInterleave /\ [][NextInterleave]_vars

Next ==
  \/ Tick
  \/ \E s \in SW, t \in SW : operator_plus_assign(s, t)
  \/ \E s \in SW, t \in SW : operator_plus(s, t)
  \/ \E s \in SW, m \in BOOLEAN : set_mode(s, m)
  \/ \E s \in SW : record(s)
  \/ \E s \in SW : clear(s)

Spec == Init /\ [][Next]_vars

(* ----------------------------- properties ----------------------------- *)

Max(a, b) == IF a >= b THEN a ELSE b

\* The Stopwatch objects that exist in a state: the named ones and the one
\* the last operator+ returned.
Objects == {sw[s] : s \in SW} \cup (IF ret.op = "operator+" THEN {ret.val} ELSE {})

\* C1: in every reachable state, of every stopwatch (the result of operator+
\* included), size() = max(data_size() - 1, 0), empty() holds exactly when
\* data_size() < 2, and data_size() is 0 or size() + 1.
C1_SizeOfDataSize ==
  \A w \in Objects :
    /\ size(w) = Max(data_size(w) - 1, 0)
    /\ empty(w) <=> data_size(w) < 2
    /\ data_size(w) = 0 \/ data_size(w) = size(w) + 1

\* C1 witness: operator+ has returned a stopwatch of two durations while one
\* operand holds a single time point and is empty() with data_size() = 1.
C1_Witness ==
  /\ ret.op = "operator+"
  /\ size(ret.val) = 2
  /\ \E s \in SW : data_size(sw[s]) = 1 /\ empty(sw[s]) /\ size(sw[s]) = 0

\* C2: for every index outside [0, size()), of either index type and in
\* either mode, operator[] has the single outcome of throwing out_of_range
\* (so nothing outside the time points is read).
C2_IndexChecked ==
  \A s \in SW, kind \in IntegerKinds :
    \A index \in IntegerValues(kind) :
      index \notin 0 .. (size(sw[s]) - 1)
        => operator_index(sw[s], kind, index) = {Throw("out_of_range")}

\* C3: for every valid index i, operator[](i) is the duration cast of
\* data(i + 1) - data(i) in split mode and of data(i + 1) - data(0) in
\* elapse mode.
C3_IndexIsDataDifference ==
  \A s \in SW, kind \in IntegerKinds :
    \A i \in 0 .. (size(sw[s]) - 1) :
      LET w == sw[s]
          first == IF mode(w) = SPLIT_MODE THEN i ELSE 0
      IN  \A e \in data_at(w, kind, i + 1), b \in data_at(w, kind, first) :
            /\ e.err = "none" /\ b.err = "none"
            /\ operator_index(w, kind, i) = {Ok(DurationCast(e.val - b.val))}

\* C3 witness: an elapse mode stopwatch of two durations whose time points
\* are 1 and 2 ticks after the first: operator[] gives 0 and 1 units.
C3_Witness ==
  \E s \in SW :
    /\ mode(sw[s]) = ELAPSE_MODE
    /\ size(sw[s]) = 2
    /\ data(sw[s])[2] = data(sw[s])[1] + 1
    /\ data(sw[s])[3] = data(sw[s])[1] + 2
    /\ operator_index(sw[s], "signed", 0) = {Ok(0)}
    /\ operator_index(sw[s], "signed", 1) = {Ok(1)}

\* C4: in every reachable state, of every stopwatch, end() - begin() is
\* size(): begin() == end() when size() is 0, and the distance is N - 1
\* for N >= 1 time points.
C4_EndMinusBegin ==
  \A w \in Objects :
    /\ iter_minus(end(w), begin(w)) = {Ok(size(w))}
    /\ size(w) = 0 => iter_eq(begin(w), end(w))
    /\ data_size(w) >= 1 => iter_minus(end(w), begin(w)) = {Ok(data_size(w) - 1)}

\* C4 witness: a stopwatch with a single time point (begin() == end()) and
\* a result of operator+ with three, whose end() is two past its begin().
C4_Witness ==
  /\ ret.op = "operator+" /\ data_size(ret.val) = 3
  /\ iter_minus(end(ret.val), begin(ret.val)) = {Ok(2)}
  /\ \E s \in SW : data_size(sw[s]) = 1 /\ iter_eq(begin(sw[s]), end(sw[s]))

\* The iterators of the valid range of w: begin() + n up to end().
Positions(w) == {iter_add(begin(w), n) : n \in 0 .. size(w)}

\* C5: subtracting iterators of two different stopwatches throws
\* runtime_error in every reachable pair of states, and subtracting two
\* iterators of one stopwatch gives the difference of their positions.
C5_SubtractionChecksOrigin ==
  /\ \A s \in SW, t \in SW :
       s # t => \A a \in Positions(sw[s]), b \in Positions(sw[t]) :
                  iter_minus(a, b) = {Throw("runtime_error")}
  /\ \A s \in SW :
       \A a \in Positions(sw[s]), b \in Positions(sw[s]) :
         iter_minus(a, b) = {Ok(a.ptr.off - b.ptr.off)}

\* C6: for two iterators of one stopwatch, <, <=, > and >= return the
\* relation of their positions; a >= b is the negation of a < b and equals
\* b <= a.
C6_RelationalOrder ==
  \A s \in SW :
    \A a \in Positions(sw[s]), b \in Positions(sw[s]) :
      /\ iter_lt(a, b) = {OkB(a.ptr.off < b.ptr.off)}
      /\ iter_le(a, b) = {OkB(a.ptr.off <= b.ptr.off)}
      /\ iter_gt(a, b) = {OkB(a.ptr.off > b.ptr.off)}
      /\ iter_ge(a, b) = {OkB(a.ptr.off >= b.ptr.off)}
      /\ iter_ge(a, b) = {OkB(~o.val) : o \in iter_lt(a, b)}
      /\ iter_ge(a, b) = iter_le(b, a)

\* The outcomes of the four relational operators on a and b.
Relational(a, b) ==
  iter_lt(a, b) \cup iter_le(a, b) \cup iter_gt(a, b) \cup iter_ge(a, b)

\* C7 as claimed: a relational comparison of two iterators whose bases
\* differ fails with an error and returns no boolean.
C7_ComparisonFails ==
  \A s \in SW, t \in SW :
    \A a \in Positions(sw[s]), b \in Positions(sw[t]) :
      a.base # b.base => \A o \in Relational(a, b) : o.err # "none"

\* C7 as amended: a relational comparison of two iterators whose bases
\* differ raises nothing and returns false, for each of <, <=, > and >=.
C7_ComparisonFalse ==
  \A s \in SW, t \in SW :
    begin(sw[s]).base # begin(sw[t]).base
      => \A a \in Positions(sw[s]), b \in Positions(sw[t]) :
           /\ a.base # b.base
           /\ iter_lt(a, b) = {OkB(FALSE)}
           /\ iter_le(a, b) = {OkB(FALSE)}
           /\ iter_gt(a, b) = {OkB(FALSE)}
           /\ iter_ge(a, b) = {OkB(FALSE)}

\* C7 witness: two stopwatches with durations and different storage, the
\* begin() of one compared with the end() of the other.
C7_Witness ==
  \E s \in SW, t \in SW :
    /\ size(sw[s]) >= 1 /\ size(sw[t]) >= 2
    /\ begin(sw[s]).base # end(sw[t]).base
    /\ begin(sw[s]).ptr.off < end(sw[t]).ptr.off
    /\ Relational(begin(sw[s]), end(sw[t])) = {OkB(FALSE)}

\* C8: begin() and end() carry the stopwatch's mode of the moment of the
\* call; a step that changes a stopwatch's mode changes no iterator and no
\* time point; iterator::mode(m) changes no stopwatch and the mode of no
\* other iterator.
C8_ModesIndependent ==
  /\ [](\A s \in SW : /\ iter_mode_get(begin(sw[s])) = mode(sw[s])
                       /\ iter_mode_get(end(sw[s])) = mode(sw[s]))
  /\ [][\A k \in IT, s \in SW :
          it_begin(k, s) \/ it_end(k, s) => it'[k].iter_mode = sw[s].sw_mode]_vars
  /\ [][(\E s \in SW : sw'[s].sw_mode # sw[s].sw_mode)
          => /\ it' = it
             /\ \A s \in SW : sw'[s].measurements = sw[s].measurements]_vars
  /\ [][\A k \in IT, m \in BOOLEAN :
          it_mode(k, m)
            => /\ sw' = sw
               /\ it'[k].iter_mode = m
               /\ \A j \in IT \ {k} : it'[j].iter_mode = it[j].iter_mode]_vars

\* C8 witness: two iterators into one stopwatch, one in the other mode than
\* the stopwatch and than the other iterator.
C8_Witness ==
  \E s \in SW :
    /\ it["i"].live /\ it["j"].live
    /\ it["i"].base.blk = s /\ it["j"].base.blk = s
    /\ it["i"].iter_mode # sw[s].sw_mode
    /\ it["j"].iter_mode = sw[s].sw_mode
    /\ size(sw[s]) >= 1

\* C9: for every valid position i and mode m, *(begin() + i) and begin()[i]
\* of an iterator set to mode m are the value operator[](i) has when the
\* stopwatch is in mode m, whatever the stopwatch's mode is.
C9_DerefIsIndex ==
  \A w \in Objects, m \in BOOLEAN :
    \A i \in 0 .. (size(w) - 1) :
      LET value == operator_index([w EXCEPT !.sw_mode = m], "size_t", i)
      IN  /\ iter_deref(iter_mode_set(iter_add(begin(w), i), m)) = value
          /\ iter_index(iter_mode_set(begin(w), m), i) = value
          /\ \A o \in value : o.err = "none" /\ ~o.oob

\* C9 witness: a split mode stopwatch with time points 0, 1 and 2 ticks:
\* at position 1 an elapse mode iterator reads 1 unit and a split mode
\* iterator 0.
C9_Witness ==
  \E s \in SW :
    /\ mode(sw[s]) = SPLIT_MODE
    /\ size(sw[s]) = 2
    /\ iter_deref(iter_mode_set(iter_add(begin(sw[s]), 1), ELAPSE_MODE)) = {Ok(1)}
    /\ iter_deref(iter_add(begin(sw[s]), 1)) = {Ok(0)}

\* The values of a sequence, and the number of times v is in it.
Range(q) == {q[n] : n \in 1 .. Len(q)}

Count(v, q) == Cardinality({n \in 1 .. Len(q) : q[n] = v})

\* The elements of a set of integers in increasing order.
RECURSIVE SortedSeq(_)
SortedSeq(S) ==
  IF S = {} THEN <<>>
  ELSE LET least == CHOOSE x \in S : \A y \in S : x <= y
       IN  <<least>> \o SortedSeq(S \ {least})

\* The merge in which every value is there as often as in the operand that
\* holds it most often.
IsMultisetUnion(r, a, b) ==
  /\ \A n \in 1 .. (Len(r) - 1) : r[n] <= r[n + 1]
  /\ \A v \in Range(r) \cup Range(a) \cup Range(b) :
       Count(v, r) = Max(Count(v, a), Count(v, b))

\* C10 as claimed: the result of A + B holds every time-point value of A
\* and of B exactly once, in increasing order.
C10_MergeIsSetUnion ==
  ret.op = "operator+"
    => ret.val.measurements =
         SortedSeq(Range(sw[ret.lhs].measurements)
                     \cup Range(sw[ret.rhs].measurements))

\* C10 as amended: after A += B, and in the result of A + B, the time points
\* are in non-decreasing order and every value is there max(its number in
\* A, its number in B) times: one of a pair A and B share, and all of those
\* one operand holds several times.
C10_MergeIsMultisetUnion ==
  /\ [](ret.op = "operator+"
          => IsMultisetUnion(ret.val.measurements, sw[ret.lhs].measurements,
                             sw[ret.rhs].measurements))
  /\ [][\A s \in SW, t \in SW :
          operator_plus_assign(s, t)
            => IsMultisetUnion(sw'[s].measurements, sw[s].measurements,
                               sw[t].measurements)]_vars

\* C10 witness: A + B of an operand that holds one time point twice and an
\* operand that shares it: the value is kept twice, not three times.
C10_Witness ==
  /\ ret.op = "operator+"
  /\ \E v \in Range(ret.val.measurements) :
       /\ Count(v, sw[ret.lhs].measurements) = 2
       /\ Count(v, sw[ret.rhs].measurements) = 1
       /\ Count(v, ret.val.measurements) = 2
  /\ Len(ret.val.measurements) = 3

\* C11: the time-point values of A + B are those of A together with those
\* of B: every value of either operand is in the result, and the result
\* holds no value that is in neither.
C11_MergeIsSuperset ==
  ret.op = "operator+"
    => Range(ret.val.measurements) =
         Range(sw[ret.lhs].measurements) \cup Range(sw[ret.rhs].measurements)

\* C11 witness: A + B of two operands each of which holds a value the other
\* does not, and which share a value.
C11_Witness ==
  /\ ret.op = "operator+"
  /\ LET a == Range(sw[ret.lhs].measurements)
         b == Range(sw[ret.rhs].measurements)
     IN  /\ a \ b # {}
         /\ b \ a # {}
         /\ a \cap b # {}
         /\ Range(ret.val.measurements) = a \cup b

\* C12: the triangle inequality of the merge: A + B holds at most as many
\* time points as A and B together.
C12_TriangleInequality ==
  ret.op = "operator+"
    => data_size(ret.val) <= data_size(sw[ret.lhs]) + data_size(sw[ret.rhs])

\* C12 witness: A + B of two operands of two time points each that share
\* one: the result holds three, one fewer than the sum.
C12_Witness ==
  /\ ret.op = "operator+"
  /\ data_size(sw[ret.lhs]) = 2
  /\ data_size(sw[ret.rhs]) = 2
  /\ data_size(ret.val) = 3

\* C13: merge convergence: A0 + B0 is computed, then A += B, then B += A:
\* now A and B hold the same sequence of time points, and it is the one of
\* A0 + B0.
C13_MergeConverges ==
  ret.op = "sw_b += sw_a"
    => /\ data(sw[ret.lhs]) = data(sw[ret.rhs])
       /\ data(sw[ret.rhs]) = data(ret.val)

\* C13 witness: the two in-place merges are done, and both stopwatches hold
\* the three time points of sw_union.
C13_Witness ==
  /\ ret.op = "sw_b += sw_a"
  /\ ret.lhs # ret.rhs
  /\ data(ret.val) = <<0, MaxTime - 1, MaxTime>>
  /\ data(sw[ret.lhs]) = data(ret.val)
  /\ data(sw[ret.rhs]) = data(ret.val)

\* C14: a merge keeps the receiver's mode and does not touch the argument.
\* A += B leaves A's mode and every other stopwatch, B's time points and
\* mode included, as they were; A + B leaves every stopwatch as it was and
\* returns a stopwatch in A's mode, whatever the mode of B.
C14_MergeFrame ==
  /\ [](ret.op = "operator+" => mode(ret.val) = mode(sw[ret.lhs]))
  /\ [][\A s \in SW, t \in SW :
          /\ operator_plus_assign(s, t)
               => /\ mode(sw'[s]) = mode(sw[s])
                  /\ \A u \in SW \ {s} : sw'[u] = sw[u]
          /\ operator_plus(s, t)
               => /\ sw' = sw
                  /\ mode(ret'.val) = mode(sw[s])]_vars

\* C14 witness: A + B of an elapse mode A and a split mode B that holds time
\* points A does not: the result has them and is in elapse mode.
C14_Witness ==
  /\ ret.op = "operator+"
  /\ mode(sw[ret.lhs]) = ELAPSE_MODE
  /\ mode(sw[ret.rhs]) = SPLIT_MODE
  /\ Range(data(sw[ret.rhs])) \ Range(data(sw[ret.lhs])) # {}
  /\ data_size(ret.val) > data_size(sw[ret.lhs])
  /\ mode(ret.val) = ELAPSE_MODE

\* C15: clear() leaves a stopwatch without time points (empty() is true,
\* size() and data_size() are 0) in the mode it had; on a stopwatch that
\* holds no time point it changes nothing; and record() on a stopwatch
\* without time points leaves what it leaves of a newly constructed one:
\* the one time point of the clock, in storage of its own.
C15_ClearResets ==
  [][\A s \in SW :
       /\ clear(s)
            => /\ empty(sw'[s])
               /\ size(sw'[s]) = 0
               /\ data_size(sw'[s]) = 0
               /\ mode(sw'[s]) = mode(sw[s])
               /\ data_size(sw[s]) = 0 => sw'[s] = sw[s]
       /\ record(s) /\ data_size(sw[s]) = 0
            => sw'[s] = [Construct(s, mode(sw[s])) EXCEPT !.measurements = <<now>>]
    ]_vars

\* C15 witness: an elapse mode stopwatch that held earlier time points, was
\* cleared and then recorded to: it holds the one time point of the clock.
C15_Witness ==
  \E s \in SW :
    /\ data(sw[s]) = <<now>>
    /\ mode(sw[s]) = ELAPSE_MODE
    /\ empty(sw[s])
    /\ data_size(sw[s]) = 1

\* The stopwatch w put into mode m, as mode(bool) does.
InMode(w, m) == [w EXCEPT !.sw_mode = m]

\* C16: under the steady clock every duration operator[] of a stopwatch
\* returns for an index below size() is 0 or more, in elapse mode and in
\* split mode, and the elapse mode durations do not decrease as the index
\* grows.
C16_DurationsMonotonic ==
  \A w \in {sw[s] : s \in SW}, kind \in IntegerKinds :
    /\ \A m \in BOOLEAN, i \in 0 .. (size(w) - 1) :
         \A x \in operator_index(InMode(w, m), kind, i) :
           x.err = "none" /\ ~x.oob /\ x.val >= 0
    /\ \A i \in 0 .. (size(w) - 1), j \in 0 .. (size(w) - 1) :
         i < j
           => \A x \in operator_index(InMode(w, ELAPSE_MODE), kind, i),
                 y \in operator_index(InMode(w, ELAPSE_MODE), kind, j) :
                x.val <= y.val

\* C16 witness: an elapse mode stopwatch recorded at every tick of the
\* clock, whose last duration is a whole unit and more than its first.
C16_Witness ==
  \E s \in SW :
    /\ mode(sw[s]) = ELAPSE_MODE
    /\ size(sw[s]) = MaxTime
    /\ operator_index(sw[s], "size_t", 0) = {Ok(0)}
    /\ operator_index(sw[s], "size_t", MaxTime - 1)
         = {Ok(DurationCast(MaxTime))}
    /\ DurationCast(MaxTime) > 0

\* Non-decreasing order.
IsSorted(q) == \A n \in 1 .. (Len(q) - 1) : q[n] <= q[n + 1]

\* C17: under the one steady clock the time points of every stopwatch, and
\* of every result of operator+, are in non-decreasing order, whatever
\* record(), clear(), += and + steps led to the state.
C17_AlwaysSorted == \A w \in Objects : IsSorted(data(w))

\* C17 witness: A + B where A was recorded before and after the one
\* time point of B: the result has it in between.
C17_Witness ==
  /\ ret.op = "operator+"
  /\ data(sw[ret.lhs]) = <<0, MaxTime>>
  /\ Len(data(sw[ret.rhs])) = 1
  /\ Len(data(ret.val)) = 3
  /\ data(ret.val)[1] < data(ret.val)[2]
  /\ data(ret.val)[2] < data(ret.val)[3]

====
